---- MODULE Spec2Model ----
(***************************************************************************)
(* Airdrop Conductor: the distribution execution engine.                   *)
(*                                                                         *)
(* Part I  models backend/src/services/distributor.service.ts together     *)
(* with the route POST /:id/execute of backend/src/routes/campaigns.ts:    *)
(* one campaign row, its recipient rows, the executeCampaign invocations,  *)
(* the sendTokenToRecipient pipelines, the setTimeout retries and the      *)
(* detached monitorConfirmation calls.  Every await of the code is a step. *)
(*                                                                         *)
(* Part II models the SQLite revision of server.js: the job row and its    *)
(* task rows as start-job leaves them, the background worker processJob    *)
(* and the cancel-job requests.                                            *)
(*                                                                         *)
(* Part III models the PostgreSQL revision of server.js, the wallet flow:  *)
(* the job and tasks create-job inserted, and the requests                 *)
(* get-unsigned-transactions and submit-signed-transactions of clients.    *)
(*                                                                         *)
(* Part IV models the conversion of a CSV amount to the integer amount of  *)
(* the transfer: toSmallestUnit and BigInt(task.amount) of server.js, and  *)
(* Math.floor(recipient.amount * Math.pow(10, tokenDecimals)) of the       *)
(* distributor, computed in IEEE 754 binary64 on bit sequences.            *)
(***************************************************************************)
EXTENDS Integers, Sequences, FiniteSets, TLC

(* ---------------------------------------------------------------------- *)
(* Bounds of the model                                                     *)
(* ---------------------------------------------------------------------- *)
NumRecipients == 2
MaxExecutions == 2
MaxTries == 3
MaxSubmits == 2
MaxRetriesBound == 2
MaxBatchSize == 2
MaxLoad == 3
NumTasks == 2
MaxCancels == 1
NumClients == 2
MaxUploadTasks == 11
MaxListLen == 4
MaxBatchInput == 3
MaxLoopSteps == 8
MaxAmountLen == 4
MaxDecimals == 2
MaxRetryCount == 2

(* ---------------------------------------------------------------------- *)
(* Values                                                                  *)
(* ---------------------------------------------------------------------- *)
Null == "null"
NoFee == -1
NoSignature == 0
LamportFee == 5000
MAX_RETRIES == 3
UNSIGNED_LIMIT == 10
DEFAULT_BATCH_SIZE == 20
CancelMessage == "Job cancelled by user"
SetupError == "setup error"
TaskError == "task error"

SendErrors == {"relay error"}
RepositoryError == "repository error"
OnChainError == "Transaction failed on-chain"
ExpiredError == "block height exceeded"
MonitorErrors == {OnChainError, ExpiredError}
LedgerReadError == "failed to get transaction"

VARIABLES
  campaign,    \* the Campaign row
  recipient,   \* the Recipient rows, by id
  exec,        \* the executeCampaign invocations, by request number
  unit,        \* unit[e][r]: the Recipient object invocation e holds for r (att is
               \* its attempts field as read), where the work on it is, and the
               \* delay in ms of the last timer armed for it
  tries,       \* tries[r]: sendTokenToRecipient calls made for r, counted up to MaxTries
  submits,     \* submits[r]: signatures the relay returned for r, counted up to MaxSubmits
  job,         \* server.js: the row of the jobs table
  tasks,       \* server.js: the rows of the tasks table, by task_id
  worker,      \* server.js: the processJob call of the job
  cancel,      \* server.js: the cancel-job requests, by request number
  pjob,        \* server.js, PostgreSQL revision: the row of the jobs table
  ptasks,      \* server.js, PostgreSQL revision: the rows of the tasks table
  client,      \* the wallet clients: what each was offered and the request it has running
  conv,        \* one amount on its way from the CSV text to the transfer instruction
  loop         \* the for loop of one createBatches call

\* the tables of the three engines
engines == <<campaign, recipient, exec, unit, tries, submits, job, tasks, worker, cancel>>
pvars == <<pjob, ptasks, client>>

\* dvars: all that the actions of Part II leave unchanged;
\* svars: all that the actions of Part I leave unchanged
dvars == <<campaign, recipient, exec, unit, tries, submits, pvars, conv, loop>>
svars == <<job, tasks, worker, cancel, pvars, conv, loop>>

\* the recipient rows of the campaign and the execute requests made for it
Recipients == DOMAIN recipient
Executions == DOMAIN exec

(* ---------------------------------------------------------------------- *)
(* Pure helpers                                                            *)
(* ---------------------------------------------------------------------- *)
Min(a, b) == IF a < b THEN a ELSE b

RECURSIVE SeqOfSet(_)
SeqOfSet(S) ==
  IF S = {} THEN <<>>
  ELSE LET m == CHOOSE x \in S : \A y \in S : x <= y
       IN <<m>> \o SeqOfSet(S \ {m})

RECURSIVE createBatchesFrom(_, _, _)
createBatchesFrom(array, size, i) ==
  IF i < Len(array)
  THEN <<SubSeq(array, i + 1, Min(i + size, Len(array)))>>
         \o createBatchesFrom(array, size, i + size)
  ELSE <<>>

\* one batch holding the whole array, whatever the size
createBatches_Whole(array, size) == IF array = <<>> THEN <<>> ELSE <<array>>

createBatches(array, size) == createBatchesFrom(array, size, 0)

SeqRange(s) == {s[i] : i \in 1..Len(s)}

CountStatus(st) == Cardinality({r \in Recipients : recipient[r].status = st})

RECURSIVE SumFees(_)
SumFees(S) ==
  IF S = {} THEN 0
  ELSE LET r == CHOOSE x \in S : TRUE
       IN (IF recipient[r].feesPaid = NoFee THEN 0 ELSE recipient[r].feesPaid)
            + SumFees(S \ {r})

(* ---------------------------------------------------------------------- *)
(* Initial state: a created campaign with its recipients, nothing started  *)
(* ---------------------------------------------------------------------- *)
NewRecipient ==
  [status |-> "pending", attempts |-> 0, txSignature |-> NoSignature,
   lastError |-> Null, feesPaid |-> NoFee, confirmedAt |-> FALSE]

\* no amount is being converted
NoConv == [engine |-> "none", amount |-> <<>>, decimals |-> 0, stage |-> "none",
           stored |-> <<>>, used |-> 0]

\* no createBatches call is being followed
NoLoop == [pc |-> "none", size |-> 0, len |-> 0, i |-> 0, pushed |-> 0]

NoStats == [confirmed |-> 0, failed |-> 0, fees |-> 0]

NoExec == [pc |-> "none", seen |-> Null, batches |-> <<>>, k |-> 0, stats |-> NoStats]

NoUnit == [pc |-> "idle", att |-> 0, delay |-> 0]

\* POST / has created the campaign and its recipients, and POST /:id/execute
\* will be requested x times; no job of server.js exists
DInit ==
  \E n \in 1..NumRecipients, x \in 1..MaxExecutions :
    /\ n + x <= MaxLoad
    /\ \E mr \in 1..MaxRetriesBound, bs \in 1..MaxBatchSize :
         campaign = [status |-> "pending", batchSize |-> bs, maxRetries |-> mr,
                     totalRecipients |-> n, totalConfirmed |-> 0,
                     totalFailed |-> 0, totalSOLSpent |-> 0]
    /\ recipient = [r \in 1..n |-> NewRecipient]
    /\ exec = [e \in 1..x |-> NoExec]
    /\ unit = [e \in 1..x |-> [r \in 1..n |-> NoUnit]]
    /\ tries = [r \in 1..n |-> 0]
    /\ submits = [r \in 1..n |-> 0]
    /\ job = [status |-> "none", error_message |-> Null]
    /\ tasks = <<>>
    /\ worker = [pc |-> "none", task |-> 0, retry_count |-> 0]
    /\ cancel = <<>>
    /\ pjob = [status |-> "none"]
    /\ ptasks = <<>>
    /\ client = <<>>
    /\ conv = NoConv
    /\ loop = NoLoop

(* ---------------------------------------------------------------------- *)
(* POST /:id/execute and executeCampaign                                   *)
(* ---------------------------------------------------------------------- *)
\* processBatch starts sendTokenToRecipient for every recipient of batch k
Dispatch(e, k, batches) ==
  LET batch == IF k <= Len(batches) THEN SeqRange(batches[k]) ELSE {}
  IN /\ unit' = [unit EXCEPT ![e] = [r \in Recipients |->
                   IF r \in batch THEN [unit[e][r] EXCEPT !.pc = "send"] ELSE unit[e][r]]]
     /\ tries' = [r \in Recipients |->
                   IF r \in batch THEN Min(tries[r] + 1, MaxTries) ELSE tries[r]]

\* every recipient of the current batch was dispatched, settled or not
BatchSettled_Dispatched(e) ==
  \A r \in SeqRange(exec[e].batches[exec[e].k]) : unit[e][r].pc # "idle"

\* the first pipeline promise of every recipient of the current batch settled
BatchSettled(e) ==
  \A r \in SeqRange(exec[e].batches[exec[e].k]) : unit[e][r].pc \notin {"idle", "send"}

\* the request arrives and executeCampaign reads the campaign with its
\* pending and retrying recipients
FindCampaign(e) ==
  /\ exec[e].pc = "none"
  /\ \A d \in Executions : d < e => exec[d].pc # "none"
  /\ LET picked == {r \in Recipients : recipient[r].status \in {"pending", "retrying"}}
     IN exec' = [exec EXCEPT
                   ![e].pc = "mark",
                   ![e].seen = campaign.status,
                   ![e].batches = createBatches(SeqOfSet(picked), campaign.batchSize)]
        /\ unit' = [unit EXCEPT ![e] = [r \in Recipients |->
                      IF r \in picked THEN [pc |-> "idle", att |-> recipient[r].attempts, delay |-> 0]
                      ELSE NoUnit]]
  /\ UNCHANGED <<campaign, recipient, tries, submits, svars>>

\* the campaign is written running and the first batch is dispatched
MarkRunning(e) ==
  /\ exec[e].pc = "mark"
  /\ campaign' = [campaign EXCEPT !.status = "running"]
  /\ exec' = [exec EXCEPT ![e].pc = IF exec[e].batches = <<>> THEN "drained" ELSE "await",
                          ![e].seen = Null,
                          ![e].k = 1]
  /\ Dispatch(e, 1, exec[e].batches)
  /\ UNCHANGED <<recipient, submits, svars>>

\* Promise.allSettled of batch k resolved, sleep(500), next batch
NextBatch(e) ==
  /\ exec[e].pc = "await"
  /\ BatchSettled(e)
  /\ exec[e].k < Len(exec[e].batches)
  /\ exec' = [exec EXCEPT ![e].k = exec[e].k + 1]
  /\ Dispatch(e, exec[e].k + 1, exec[e].batches)
  /\ UNCHANGED <<campaign, recipient, submits, svars>>

(* ---------------------------------------------------------------------- *)
(* handleFailure: the write it makes and whether it arms a timer           *)
(* ---------------------------------------------------------------------- *)
\* the comparison with <= : one more retry than maxRetries allows
RetryAllowed_Inclusive(newAttempts, maxRetries) == newAttempts <= maxRetries

RetryAllowed(newAttempts, maxRetries) == newAttempts < maxRetries

\* Math.pow(2, newAttempts) * 1000
BackoffDelay(newAttempts) == 2^newAttempts * 1000

handleFailure(e, r, error) ==
  LET newAttempts == unit[e][r].att + 1
  IN IF RetryAllowed(newAttempts, campaign.maxRetries)
     THEN /\ recipient' = [recipient EXCEPT ![r].status = "retrying",
                                             ![r].attempts = newAttempts,
                                             ![r].lastError = error]
          /\ unit' = [unit EXCEPT ![e][r].pc = "backoff",
                                  ![e][r].delay = BackoffDelay(newAttempts)]
     ELSE /\ recipient' = [recipient EXCEPT ![r].status = "failed",
                                             ![r].attempts = newAttempts,
                                             ![r].lastError = error]
          /\ unit' = [unit EXCEPT ![e][r] = [pc |-> "done", att |-> 0, delay |-> 0]]

(* ---------------------------------------------------------------------- *)
(* sendTokenToRecipient                                                    *)
(* ---------------------------------------------------------------------- *)
InPipeline(e, r) == unit[e][r].pc \in {"send", "retry"}

\* build, optimize, sign or submit throws: no signature was returned
SendFails(e, r) ==
  /\ InPipeline(e, r)
  /\ \E error \in SendErrors : handleFailure(e, r, error)
  /\ UNCHANGED <<campaign, exec, tries, submits, svars>>

\* the write with the status name of server.js's tasks table ('success'), which
\* the Recipient statuses of the distributor do not include
SentWrite_Success(e, r) ==
  [recipient EXCEPT ![r].status = "success",
                    ![r].txSignature = Min(submits[r] + 1, MaxSubmits),
                    ![r].attempts = unit[e][r].att + 1]

\* prisma.recipient.update: status sent, txSignature, attempts + 1
SentWrite(e, r) ==
  [recipient EXCEPT ![r].status = "sent",
                    ![r].txSignature = Min(submits[r] + 1, MaxSubmits),
                    ![r].attempts = unit[e][r].att + 1]

\* the relay returns a signature, the row is written sent, the monitor starts
SendSucceeds(e, r) ==
  /\ InPipeline(e, r)
  /\ submits' = [submits EXCEPT ![r] = Min(@ + 1, MaxSubmits)]
  /\ recipient' = SentWrite(e, r)
  /\ unit' = [unit EXCEPT ![e][r] = [pc |-> "monitor", att |-> 0, delay |-> 0]]
  /\ UNCHANGED <<campaign, exec, tries, svars>>

\* the relay returns a signature but the write of status sent throws
SentWriteFails(e, r) ==
  /\ InPipeline(e, r)
  /\ submits' = [submits EXCEPT ![r] = Min(@ + 1, MaxSubmits)]
  /\ handleFailure(e, r, RepositoryError)
  /\ UNCHANGED <<campaign, exec, tries, svars>>

\* the setTimeout armed by handleFailure calls sendTokenToRecipient again
TimerFires(e, r) ==
  /\ unit[e][r].pc = "backoff"
  /\ tries[r] < MaxTries
  /\ unit' = [unit EXCEPT ![e][r].pc = "retry"]
  /\ tries' = [tries EXCEPT ![r] = @ + 1]
  /\ UNCHANGED <<campaign, recipient, exec, submits, svars>>

(* ---------------------------------------------------------------------- *)
(* monitorConfirmation                                                     *)
(* ---------------------------------------------------------------------- *)
\* confirmTransaction resolves with value.err null: the fee is fetched next
MonitorFinalized(e, r) ==
  /\ unit[e][r].pc = "monitor"
  /\ unit' = [unit EXCEPT ![e][r].pc = "fee"]
  /\ UNCHANGED <<campaign, recipient, exec, tries, submits, svars>>

\* getTransaction returned: status confirmed, confirmedAt, feesPaid
MonitorConfirmed(e, r) ==
  /\ unit[e][r].pc = "fee"
  /\ recipient' = [recipient EXCEPT ![r].status = "confirmed",
                                    ![r].confirmedAt = TRUE,
                                    ![r].feesPaid = LamportFee]
  /\ unit' = [unit EXCEPT ![e][r].pc = "done"]
  /\ UNCHANGED <<campaign, exec, tries, submits, svars>>

\* getTransaction throws after the confirmation: the catch of
\* monitorConfirmation writes status failed with the message of that error
MonitorFeeFails(e, r) ==
  /\ unit[e][r].pc = "fee"
  /\ recipient' = [recipient EXCEPT ![r].status = "failed", ![r].lastError = LedgerReadError]
  /\ unit' = [unit EXCEPT ![e][r].pc = "done"]
  /\ UNCHANGED <<campaign, exec, tries, submits, svars>>

\* the catch of monitorConfirmation writing the status without the message
MonitorFailed_NoError(e, r) ==
  /\ unit[e][r].pc = "monitor"
  /\ recipient' = [recipient EXCEPT ![r].status = "failed"]
  /\ unit' = [unit EXCEPT ![e][r].pc = "done"]
  /\ UNCHANGED <<campaign, exec, tries, submits, svars>>

\* confirmTransaction reports an on-chain error or throws: status failed, lastError
MonitorFailed(e, r) ==
  /\ unit[e][r].pc = "monitor"
  /\ \E error \in MonitorErrors :
       recipient' = [recipient EXCEPT ![r].status = "failed", ![r].lastError = error]
  /\ unit' = [unit EXCEPT ![e][r].pc = "done"]
  /\ UNCHANGED <<campaign, exec, tries, submits, svars>>

(* ---------------------------------------------------------------------- *)
(* updateCampaignStats: the groupBy read, then the campaign update         *)
(* ---------------------------------------------------------------------- *)
Drained(e) ==
  \/ exec[e].pc = "drained"
  \/ exec[e].pc = "await" /\ BatchSettled(e) /\ exec[e].k = Len(exec[e].batches)

StatsRead(e) ==
  /\ Drained(e)
  /\ exec' = [exec EXCEPT ![e].pc = "stats_write",
                          ![e].stats = [confirmed |-> CountStatus("confirmed"),
                                        failed |-> CountStatus("failed"),
                                        fees |-> SumFees(Recipients)]]
  /\ UNCHANGED <<campaign, recipient, unit, tries, submits, svars>>

\* the campaign.update adding the counts to the stored counters
StatsWrite_Accumulate(e) ==
  /\ exec[e].pc = "stats_write"
  /\ campaign' = [campaign EXCEPT !.totalConfirmed = @ + exec[e].stats.confirmed,
                                  !.totalFailed = @ + exec[e].stats.failed,
                                  !.totalSOLSpent = exec[e].stats.fees,
                                  !.status = "completed"]
  /\ exec' = [exec EXCEPT ![e] = [NoExec EXCEPT !.pc = "done"]]
  /\ UNCHANGED <<recipient, unit, tries, submits, svars>>

\* prisma.campaign.update: the counters of the groupBy and status completed
StatsWrite(e) ==
  /\ exec[e].pc = "stats_write"
  /\ campaign' = [campaign EXCEPT !.totalConfirmed = exec[e].stats.confirmed,
                                  !.totalFailed = exec[e].stats.failed,
                                  !.totalSOLSpent = exec[e].stats.fees,
                                  !.status = "completed"]
  /\ exec' = [exec EXCEPT ![e] = [NoExec EXCEPT !.pc = "done"]]
  /\ UNCHANGED <<recipient, unit, tries, submits, svars>>

DNext ==
  \/ \E e \in Executions : FindCampaign(e)
  \/ \E e \in Executions : MarkRunning(e)
  \/ \E e \in Executions : NextBatch(e)
  \/ \E e \in Executions, r \in Recipients : SendFails(e, r)
  \/ \E e \in Executions, r \in Recipients : SendSucceeds(e, r)
  \/ \E e \in Executions, r \in Recipients : SentWriteFails(e, r)
  \/ \E e \in Executions, r \in Recipients : TimerFires(e, r)
  \/ \E e \in Executions, r \in Recipients : MonitorFinalized(e, r)
  \/ \E e \in Executions, r \in Recipients : MonitorConfirmed(e, r)
  \/ \E e \in Executions, r \in Recipients : MonitorFeeFails(e, r)
  \/ \E e \in Executions, r \in Recipients : MonitorFailed(e, r)
  \/ \E e \in Executions : StatsRead(e)
  \/ \E e \in Executions : StatsWrite(e)

(* ====================================================================== *)
(* Part II: server.js (SQLite revision): processJob and cancel-job         *)
(* ====================================================================== *)
Tasks == DOMAIN tasks
Cancels == DOMAIN cancel

NewTask ==
  [status |-> "pending", retry_count |-> 0, tx_signature |-> NoSignature,
   error_message |-> Null]

\* no campaign of the distributor exists
NoCampaign == [status |-> "none", batchSize |-> 1, maxRetries |-> 1,
               totalRecipients |-> 0, totalConfirmed |-> 0,
               totalFailed |-> 0, totalSOLSpent |-> 0]

\* start-job has inserted the job and its tasks and has called processJob;
\* the campaign tables of the distributor are empty
WInit ==
  /\ campaign = NoCampaign
  /\ recipient = <<>>
  /\ exec = <<>>
  /\ unit = <<>>
  /\ tries = <<>>
  /\ submits = <<>>
  /\ job = [status |-> "pending", error_message |-> Null]
  /\ \E n \in 1..NumTasks : tasks = [t \in 1..n |-> NewTask]
  /\ worker = [pc |-> "get", task |-> 0, retry_count |-> 0]
  /\ cancel = [c \in 1..MaxCancels |-> "none"]
  /\ pjob = [status |-> "none"]
  /\ ptasks = <<>>
  /\ client = <<>>
  /\ conv = NoConv
  /\ loop = NoLoop

\* SELECT * FROM tasks WHERE status = 'pending' AND retry_count < MAX_RETRIES LIMIT 1
Selectable == {t \in Tasks : tasks[t].status = "pending" /\ tasks[t].retry_count < MAX_RETRIES}

FirstSelectable == CHOOSE t \in Selectable : \A u \in Selectable : t <= u

(* ---------------------------------------------------------------------- *)
(* processJob                                                              *)
(* ---------------------------------------------------------------------- *)
\* job = SELECT * FROM jobs (the row start-job inserted)
WorkerGet ==
  /\ worker.pc = "get"
  /\ worker' = [worker EXCEPT !.pc = IF job.status = "none" THEN "fatal" ELSE "mark"]
  /\ UNCHANGED <<job, tasks, cancel, dvars>>

\* UPDATE jobs SET status = 'running'
WorkerMarkRunning ==
  /\ worker.pc = "mark"
  /\ job' = [job EXCEPT !.status = "running"]
  /\ worker' = [worker EXCEPT !.pc = "setup"]
  /\ UNCHANGED <<tasks, cancel, dvars>>

\* keypair decoding and getOrCreateAssociatedTokenAccount succeed
WorkerSetupOk ==
  /\ worker.pc = "setup"
  /\ worker' = [worker EXCEPT !.pc = "check"]
  /\ UNCHANGED <<job, tasks, cancel, dvars>>

\* they throw, or a statement of the loop threw: the outer catch writes the
\* job failed with the message of the error
WorkerFatal ==
  /\ worker.pc \in {"setup", "fatal", "fatal_db"}
  /\ job' = IF job.status = "none" THEN job
            ELSE [job EXCEPT !.status = "failed",
                             !.error_message = IF worker.pc = "fatal_db"
                                               THEN RepositoryError ELSE SetupError]
  /\ worker' = [worker EXCEPT !.pc = "done"]
  /\ UNCHANGED <<tasks, cancel, dvars>>

\* top of the loop: SELECT status FROM jobs, stop when cancelled
WorkerCheckCancelled ==
  /\ worker.pc = "check"
  /\ worker' = [worker EXCEPT !.pc = IF job.status = "cancelled" THEN "final_read" ELSE "select"]
  /\ UNCHANGED <<job, tasks, cancel, dvars>>

\* select the next pending task, stop when there is none
WorkerSelect ==
  /\ worker.pc = "select"
  /\ worker' = IF Selectable = {}
               THEN [worker EXCEPT !.pc = "final_read"]
               ELSE [pc |-> "claim", task |-> FirstSelectable,
                     retry_count |-> tasks[FirstSelectable].retry_count]
  /\ UNCHANGED <<job, tasks, cancel, dvars>>

\* UPDATE tasks SET status = 'processing' WHERE task_id = ?
WorkerClaim ==
  /\ worker.pc = "claim"
  /\ tasks' = [tasks EXCEPT ![worker.task].status = "processing"]
  /\ worker' = [worker EXCEPT !.pc = "work"]
  /\ UNCHANGED <<job, cancel, dvars>>

\* the transfer was built, optimized, signed and sent: the task is written success
WorkerTaskSuccess ==
  /\ worker.pc = "work"
  /\ tasks' = [tasks EXCEPT ![worker.task].status = "success",
                            ![worker.task].tx_signature = 1,
                            ![worker.task].error_message = Null]
  /\ worker' = [pc |-> "check", task |-> 0, retry_count |-> 0]
  /\ UNCHANGED <<job, cancel, dvars>>

\* the comparison with > : the task stays pending at retry_count = MAX_RETRIES
RetriesExhausted_Late(newRetryCount) == newRetryCount > MAX_RETRIES

RetriesExhausted(newRetryCount) == newRetryCount >= MAX_RETRIES

\* the inner catch putting the task back to pending without counting the retry
WorkerTaskFailure_Forever ==
  /\ worker.pc = "work"
  /\ tasks' = [tasks EXCEPT ![worker.task].status = "pending",
                            ![worker.task].error_message = TaskError]
  /\ worker' = [pc |-> "check", task |-> 0, retry_count |-> 0]
  /\ UNCHANGED <<job, cancel, dvars>>

\* any step of the transfer threw: failure and retry logic of the inner catch
WorkerTaskFailure ==
  /\ worker.pc = "work"
  /\ LET newRetryCount == worker.retry_count + 1
     IN tasks' = [tasks EXCEPT
                    ![worker.task].status =
                       IF RetriesExhausted(newRetryCount) THEN "failed" ELSE "pending",
                    ![worker.task].retry_count = newRetryCount,
                    ![worker.task].error_message = TaskError]
  /\ worker' = [pc |-> "check", task |-> 0, retry_count |-> 0]
  /\ UNCHANGED <<job, cancel, dvars>>

\* a step of the transfer threw and the UPDATE of the inner catch throws too:
\* the error leaves the loop and reaches the outer catch
WorkerRecordFails ==
  /\ worker.pc = "work"
  /\ worker' = [worker EXCEPT !.pc = "fatal_db"]
  /\ UNCHANGED <<job, tasks, cancel, dvars>>

\* after the loop: SELECT status FROM jobs
WorkerFinalRead ==
  /\ worker.pc = "final_read"
  /\ worker' = [worker EXCEPT !.pc = IF job.status = "running" THEN "final_write" ELSE "done"]
  /\ UNCHANGED <<job, tasks, cancel, dvars>>

\* UPDATE jobs SET status = 'completed'
WorkerFinalWrite ==
  /\ worker.pc = "final_write"
  /\ job' = [job EXCEPT !.status = "completed"]
  /\ worker' = [worker EXCEPT !.pc = "done"]
  /\ UNCHANGED <<tasks, cancel, dvars>>

(* ---------------------------------------------------------------------- *)
(* POST /api/cancel-job/:job_id                                            *)
(* ---------------------------------------------------------------------- *)
\* no check of the status: every job that exists is cancelled
Cancellable_Always(status) == TRUE

Cancellable(status) == status = "running" \/ status = "pending"

\* the request arrives, for the job_id of the job or for another one, and
\* reads the job row: 404 (not found) or 400 (cannot cancel) end it
CancelRead(c) ==
  /\ cancel[c] = "none"
  /\ \A d \in Cancels : d < c => cancel[d] # "none"
  /\ \E known \in BOOLEAN :
       cancel' = [cancel EXCEPT ![c] =
                    IF ~known \/ job.status = "none" THEN "notfound"
                    ELSE IF Cancellable(job.status) THEN "job" ELSE "rejected"]
  /\ UNCHANGED <<job, tasks, worker, dvars>>

\* UPDATE jobs SET status = 'cancelled', error_message = 'Job cancelled by user'
CancelJobWrite(c) ==
  /\ cancel[c] = "job"
  /\ job' = [job EXCEPT !.status = "cancelled", !.error_message = CancelMessage]
  /\ cancel' = [cancel EXCEPT ![c] = "tasks"]
  /\ UNCHANGED <<tasks, worker, dvars>>

\* the UPDATE without the condition status = 'pending' sparing finished tasks only
CancelTasksWrite_All(c) ==
  /\ cancel[c] = "tasks"
  /\ tasks' = [t \in Tasks |->
                 IF tasks[t].status \in {"pending", "processing"}
                 THEN [tasks[t] EXCEPT !.status = "failed", !.error_message = CancelMessage]
                 ELSE tasks[t]]
  /\ cancel' = [cancel EXCEPT ![c] = "done"]
  /\ UNCHANGED <<job, worker, dvars>>

\* UPDATE tasks SET status = 'failed', error_message = ... WHERE status = 'pending'
CancelTasksWrite(c) ==
  /\ cancel[c] = "tasks"
  /\ tasks' = [t \in Tasks |->
                 IF tasks[t].status = "pending"
                 THEN [tasks[t] EXCEPT !.status = "failed", !.error_message = CancelMessage]
                 ELSE tasks[t]]
  /\ cancel' = [cancel EXCEPT ![c] = "done"]
  /\ UNCHANGED <<job, worker, dvars>>

WNext ==
  \/ WorkerGet
  \/ WorkerMarkRunning
  \/ WorkerSetupOk
  \/ WorkerFatal
  \/ WorkerCheckCancelled
  \/ WorkerSelect
  \/ WorkerClaim
  \/ WorkerTaskSuccess
  \/ WorkerTaskFailure
  \/ WorkerRecordFails
  \/ WorkerFinalRead
  \/ WorkerFinalWrite
  \/ \E c \in Cancels : CancelRead(c)
  \/ \E c \in Cancels : CancelJobWrite(c)
  \/ \E c \in Cancels : CancelTasksWrite(c)

(* ====================================================================== *)
(* Part III: server.js (PostgreSQL revision): the wallet flow              *)
(* ====================================================================== *)
PTasks == DOMAIN ptasks
Clients == DOMAIN client

NoClient == [pc |-> "idle", offered |-> {}, items |-> <<>>, k |-> 0, remaining |-> 0]

\* create-job has inserted the job and its tasks; the other engines are idle
PInit ==
  /\ campaign = NoCampaign
  /\ recipient = <<>>
  /\ exec = <<>>
  /\ unit = <<>>
  /\ tries = <<>>
  /\ submits = <<>>
  /\ job = [status |-> "none", error_message |-> Null]
  /\ tasks = <<>>
  /\ worker = [pc |-> "none", task |-> 0, retry_count |-> 0]
  /\ cancel = <<>>
  /\ pjob = [status |-> "pending"]
  /\ \E n \in 1..NumTasks : ptasks = [t \in 1..n |-> NewTask]
  /\ client = [c \in 1..NumClients |-> NoClient]
  /\ conv = NoConv
  /\ loop = NoLoop

\* SELECT * FROM tasks WHERE job_id = $1 AND status = 'pending'
PendingTasks == {t \in PTasks : ptasks[t].status = "pending"}

\* GET /api/get-unsigned-transactions: up to LIMIT 10 of the pending tasks
GetUnsigned(c) ==
  /\ client[c].pc = "idle"
  /\ \E S \in SUBSET PendingTasks :
       /\ Cardinality(S) = Min(UNSIGNED_LIMIT, Cardinality(PendingTasks))
       /\ client' = [client EXCEPT ![c].pc = "offered", ![c].offered = S]
  /\ UNCHANGED <<pjob, ptasks, engines, conv, loop>>

\* POST /api/submit-signed-transactions with the transactions it was offered,
\* signed: the job is read and written running
SubmitStart(c) ==
  /\ client[c].pc = "offered"
  /\ pjob' = [pjob EXCEPT !.status = "running"]
  /\ client' = [client EXCEPT ![c] = [pc |-> "submit", offered |-> {},
                                      items |-> SeqOfSet(client[c].offered),
                                      k |-> 1, remaining |-> 0]]
  /\ UNCHANGED <<ptasks, engines, conv, loop>>

\* UPDATE tasks SET status = 'processing' WHERE task_id = $2
SubmitClaim(c) ==
  /\ client[c].pc = "submit"
  /\ client[c].k <= Len(client[c].items)
  /\ ptasks' = [ptasks EXCEPT ![client[c].items[client[c].k]].status = "processing"]
  /\ client' = [client EXCEPT ![c].pc = "relay"]
  /\ UNCHANGED <<pjob, engines, conv, loop>>

\* buildGatewayTransaction and sendTransaction succeed: the task is written success
SubmitSuccess(c) ==
  /\ client[c].pc = "relay"
  /\ ptasks' = [ptasks EXCEPT ![client[c].items[client[c].k]] =
                   [@ EXCEPT !.status = "success", !.tx_signature = 1,
                             !.error_message = Null]]
  /\ client' = [client EXCEPT ![c].pc = "submit", ![c].k = @ + 1]
  /\ UNCHANGED <<pjob, engines, conv, loop>>

\* decoding or a gateway call throws: the task is written failed with
\* retry_count + 1 (counted up to MaxRetryCount)
SubmitFailure(c) ==
  /\ client[c].pc = "relay"
  /\ ptasks' = [ptasks EXCEPT ![client[c].items[client[c].k]] =
                   [@ EXCEPT !.status = "failed", !.error_message = TaskError,
                             !.retry_count = Min(@ + 1, MaxRetryCount)]]
  /\ client' = [client EXCEPT ![c].pc = "submit", ![c].k = @ + 1]
  /\ UNCHANGED <<pjob, engines, conv, loop>>

\* after the loop: SELECT COUNT(*) FROM tasks WHERE status = 'pending'
SubmitCount(c) ==
  /\ client[c].pc = "submit"
  /\ client[c].k > Len(client[c].items)
  /\ client' = [client EXCEPT ![c].pc = "finish",
                              ![c].remaining = Cardinality(PendingTasks)]
  /\ UNCHANGED <<pjob, ptasks, engines, conv, loop>>

\* if the count was 0: UPDATE jobs SET status = 'completed'; the response is sent
SubmitFinish(c) ==
  /\ client[c].pc = "finish"
  /\ pjob' = IF client[c].remaining = 0 THEN [pjob EXCEPT !.status = "completed"] ELSE pjob
  /\ client' = [client EXCEPT ![c] = NoClient]
  /\ UNCHANGED <<ptasks, engines, conv, loop>>

PNext ==
  \/ \E c \in Clients : GetUnsigned(c)
  \/ \E c \in Clients : SubmitStart(c)
  \/ \E c \in Clients : SubmitClaim(c)
  \/ \E c \in Clients : SubmitSuccess(c)
  \/ \E c \in Clients : SubmitFailure(c)
  \/ \E c \in Clients : SubmitCount(c)
  \/ \E c \in Clients : SubmitFinish(c)

(* ---------------------------------------------------------------------- *)
(* UploadView.handleSubmit: one run of the wallet flow                     *)
(* ---------------------------------------------------------------------- *)
\* createJob has returned: the job is pending with the tasks of the CSV, and
\* the view is the only client
UInit ==
  /\ campaign = NoCampaign
  /\ recipient = <<>>
  /\ exec = <<>>
  /\ unit = <<>>
  /\ tries = <<>>
  /\ submits = <<>>
  /\ job = [status |-> "none", error_message |-> Null]
  /\ tasks = <<>>
  /\ worker = [pc |-> "none", task |-> 0, retry_count |-> 0]
  /\ cancel = <<>>
  /\ pjob = [status |-> "pending"]
  /\ \E n \in 1..MaxUploadTasks : ptasks = [t \in 1..n |-> NewTask]
  /\ client = <<NoClient>>
  /\ conv = NoConv
  /\ loop = NoLoop

\* Step 2: getUnsignedTransactions(currentJobId), called once after createJob
UploadGetUnsigned ==
  /\ pjob.status = "pending"
  /\ GetUnsigned(1)

\* Steps 3 to 5: signAllTransactions, then submitSignedTransactions with all
\* the transactions of the response
UploadSubmit ==
  /\ client[1].offered # {}
  /\ SubmitStart(1)

UNext ==
  \/ UploadGetUnsigned
  \/ UploadSubmit
  \/ SubmitClaim(1)
  \/ SubmitSuccess(1)
  \/ SubmitFailure(1)
  \/ SubmitCount(1)
  \/ SubmitFinish(1)

(* ====================================================================== *)
(* Part IV: the amount of a transfer, from the CSV text to the instruction *)
(* ====================================================================== *)
\* text is a sequence of characters; a number too large for one integer is a
\* sequence of bits, most significant first
DigitChars == <<"0", "1", "2", "3", "4", "5", "6", "7", "8", "9">>
Chars == SeqRange(DigitChars) \cup {"."}

DigitVal(ch) == (CHOOSE i \in 1..10 : DigitChars[i] = ch) - 1

RECURSIVE Pow10(_)
Pow10(n) == IF n = 0 THEN 1 ELSE 10 * Pow10(n - 1)

Zeros(n) == [i \in 1..n |-> "0"]

\* String.prototype.split('.'), first and second part: [whole, fraction = '']
FirstDot(str) ==
  CHOOSE i \in 1..(Len(str) + 1) :
    /\ i = Len(str) + 1 \/ str[i] = "."
    /\ \A j \in 1..(i - 1) : str[j] # "."

SplitWhole(str) == SubSeq(str, 1, FirstDot(str) - 1)

SplitFraction(str) ==
  IF FirstDot(str) > Len(str) THEN <<>>
  ELSE LET rest == SubSeq(str, FirstDot(str) + 1, Len(str))
       IN SubSeq(rest, 1, FirstDot(rest) - 1)

padEnd(str, n) == IF Len(str) >= n THEN str ELSE str \o Zeros(n - Len(str))

slice(str, n) == SubSeq(str, 1, Min(n, Len(str)))

\* BigInt(text) of a text of decimal digits; BigInt('') is 0n
RECURSIVE BigIntOf(_)
BigIntOf(str) ==
  IF str = <<>> THEN 0
  ELSE 10 * BigIntOf(SubSeq(str, 1, Len(str) - 1)) + DigitVal(str[Len(str)])

\* BigInt.prototype.toString()
RECURSIVE ToStringOf(_)
ToStringOf(n) ==
  IF n < 10 THEN <<DigitChars[n + 1]>>
  ELSE ToStringOf(n \div 10) \o <<DigitChars[(n % 10) + 1]>>

toSmallestUnit(amount, decimals) ==
  LET whole == SplitWhole(amount)
      fraction == SplitFraction(amount)
      paddedFraction == slice(padEnd(fraction, decimals), decimals)
      smallestUnitStr == whole \o paddedFraction
  IN BigIntOf(smallestUnitStr)

\* the amounts a CSV row can carry in decimal notation: Number(amount) is a
\* number and is > 0
IsAmount(str) ==
  /\ Cardinality({i \in 1..Len(str) : str[i] = "."}) <= 1
  /\ \E i \in 1..Len(str) : str[i] # "." /\ DigitVal(str[i]) > 0

AmountStrings ==
  {str \in UNION {[1..n -> Chars] : n \in 1..MaxAmountLen} : IsAmount(str)}

(* ---------------------------------------------------------------------- *)
(* IEEE 754 binary64: a double is m * 2^e, m a sequence of <= 53 bits, most *)
(* significant first; products and quotients are computed on limbs          *)
(* ---------------------------------------------------------------------- *)
MantissaBits == 53
LimbBits == 15
Radix == 2^LimbBits
IntBits == 31

ZeroBits(n) == [i \in 1..n |-> 0]

Strip(bits) ==
  IF \A i \in 1..Len(bits) : bits[i] = 0 THEN <<>>
  ELSE SubSeq(bits, CHOOSE i \in 1..Len(bits) :
                      bits[i] = 1 /\ \A j \in 1..(i - 1) : bits[j] = 0, Len(bits))

BitsOf(n) == Strip([i \in 1..IntBits |-> (n \div 2^(IntBits - i)) % 2])

RECURSIVE IntOf(_)
IntOf(bits) ==
  IF bits = <<>> THEN 0 ELSE 2 * IntOf(SubSeq(bits, 1, Len(bits) - 1)) + bits[Len(bits)]

Limbs(bits) ==
  LET pad == (LimbBits - (Len(bits) % LimbBits)) % LimbBits
      b == ZeroBits(pad) \o bits
  IN [j \in 1..(Len(b) \div LimbBits) |->
        IntOf(SubSeq(b, (j - 1) * LimbBits + 1, j * LimbBits))]

BitsOfLimbs(limbs) ==
  Strip([i \in 1..(Len(limbs) * LimbBits) |->
           (limbs[((i - 1) \div LimbBits) + 1] \div 2^(LimbBits - 1 - ((i - 1) % LimbBits))) % 2])

\* bits * c for a small integer c: schoolbook multiplication from the last limb
RECURSIVE MulFrom(_, _, _, _)
MulFrom(limbs, i, c, carry) ==
  IF i = 0 THEN <<carry>>
  ELSE LET v == limbs[i] * c + carry
       IN MulFrom(limbs, i - 1, c, v \div Radix) \o <<v % Radix>>

MulSmall(bits, c) ==
  LET limbs == Limbs(bits)
  IN BitsOfLimbs(MulFrom(limbs, Len(limbs), c, 0))

\* bits / c for a small integer c: long division from the first limb
RECURSIVE DivFrom(_, _, _, _, _)
DivFrom(limbs, i, c, rem, q) ==
  IF i > Len(limbs) THEN [q |-> BitsOfLimbs(q), r |-> rem]
  ELSE LET v == rem * Radix + limbs[i]
       IN DivFrom(limbs, i + 1, c, v % c, q \o <<v \div c>>)

DivSmall(bits, c) == DivFrom(Limbs(bits), 1, c, 0, <<>>)

Inc(bits) ==
  IF \A i \in 1..Len(bits) : bits[i] = 1 THEN <<1>> \o ZeroBits(Len(bits))
  ELSE LET j == CHOOSE i \in 1..Len(bits) :
                  bits[i] = 0 /\ \A l \in (i + 1)..Len(bits) : bits[l] = 1
       IN SubSeq(bits, 1, j - 1) \o <<1>> \o ZeroBits(Len(bits) - j)

\* round to nearest, ties to even, to MantissaBits bits: the value is
\* (bits + a fraction that is nonzero iff sticky); the result is m * 2^sh
RoundBits(bits, sticky) ==
  IF Len(bits) <= MantissaBits THEN [m |-> bits, sh |-> 0]
  ELSE LET top == SubSeq(bits, 1, MantissaBits)
           guard == bits[MantissaBits + 1]
           below == sticky \/ \E i \in (MantissaBits + 2)..Len(bits) : bits[i] = 1
           up == guard = 1 /\ (below \/ top[MantissaBits] = 1)
       IN [m |-> IF up THEN Inc(top) ELSE top, sh |-> Len(bits) - MantissaBits]

\* the double nearest to n / 10^k (StringToNumber of a decimal text)
NearestDouble(n, k) ==
  LET s == 64 + 4 * k
      d == DivSmall(BitsOf(n) \o ZeroBits(s), Pow10(k))
      r == RoundBits(d.q, d.r # 0)
  IN [m |-> r.m, e |-> r.sh - s]

\* x * c in binary64 for an integer c that is a double itself
MulDouble(x, c) ==
  LET r == RoundBits(MulSmall(x.m, c), FALSE)
  IN [m |-> r.m, e |-> x.e + r.sh]

\* BigInt(Math.floor(x)) for x >= 0
FloorOf(x) ==
  IF x.e >= 0 THEN IntOf(x.m \o ZeroBits(x.e))
  ELSE IF -x.e >= Len(x.m) THEN 0
  ELSE IntOf(SubSeq(x.m, 1, Len(x.m) + x.e))

\* the Number a decimal text denotes (parseFloat, Number(decimal.toString()))
NumberOf(str) ==
  NearestDouble(BigIntOf(SplitWhole(str) \o SplitFraction(str)), Len(SplitFraction(str)))

\* BigInt(Math.floor(recipient.amount * Math.pow(10, campaign.tokenDecimals)))
transferAmount(amount, tokenDecimals) ==
  FloorOf(MulDouble(NumberOf(amount), Pow10(tokenDecimals)))

\* the text of the DECIMAL(20,9) column for parseFloat(row.amount): the decimal
\* value of the CSV text, without leading zeros and trailing fraction zeros
RECURSIVE DropTrailingZeros(_)
DropTrailingZeros(str) ==
  IF str # <<>> /\ str[Len(str)] = "0" THEN DropTrailingZeros(SubSeq(str, 1, Len(str) - 1))
  ELSE str

DecimalText(str) ==
  LET fraction == DropTrailingZeros(SplitFraction(str))
      whole == ToStringOf(BigIntOf(SplitWhole(str)))
  IN IF fraction = <<>> THEN whole ELSE whole \o <<".">> \o fraction

(* ---------------------------------------------------------------------- *)
(* The two ways of an amount                                               *)
(* ---------------------------------------------------------------------- *)
\* a CSV row with its amount text and the decimals of the mint, read by
\* create-job of server.js or by POST / of the campaign routes
AInit ==
  /\ campaign = NoCampaign
  /\ recipient = <<>>
  /\ exec = <<>>
  /\ unit = <<>>
  /\ tries = <<>>
  /\ submits = <<>>
  /\ job = [status |-> "none", error_message |-> Null]
  /\ tasks = <<>>
  /\ worker = [pc |-> "none", task |-> 0, retry_count |-> 0]
  /\ cancel = <<>>
  /\ pjob = [status |-> "none"]
  /\ ptasks = <<>>
  /\ client = <<>>
  /\ \E g \in {"server", "distributor"}, a \in AmountStrings, d \in 0..MaxDecimals :
       conv = [engine |-> g, amount |-> a, decimals |-> d, stage |-> "csv",
               stored |-> <<>>, used |-> 0]
  /\ loop = NoLoop

\* create-job: amount: toSmallestUnit(amount, tokenDecimals).toString()
CreateJobAmount ==
  /\ conv.engine = "server"
  /\ conv.stage = "csv"
  /\ conv' = [conv EXCEPT !.stage = "stored",
                          !.stored = ToStringOf(toSmallestUnit(conv.amount, conv.decimals))]
  /\ UNCHANGED <<engines, pvars, loop>>

\* get-unsigned-transactions: transferAmount = BigInt(task.amount)
GetUnsignedAmount ==
  /\ conv.engine = "server"
  /\ conv.stage = "stored"
  /\ conv' = [conv EXCEPT !.stage = "used", !.used = BigIntOf(conv.stored)]
  /\ UNCHANGED <<engines, pvars, loop>>

\* POST /: amount: parseFloat(row.amount), stored in the DECIMAL column
CreateCampaignAmount ==
  /\ conv.engine = "distributor"
  /\ conv.stage = "csv"
  /\ conv' = [conv EXCEPT !.stage = "stored", !.stored = DecimalText(conv.amount)]
  /\ UNCHANGED <<engines, pvars, loop>>

\* sendTokenToRecipient: the amount of createTransferInstruction
TransferInstructionAmount ==
  /\ conv.engine = "distributor"
  /\ conv.stage = "stored"
  /\ conv' = [conv EXCEPT !.stage = "used",
                          !.used = transferAmount(conv.stored, conv.decimals)]
  /\ UNCHANGED <<engines, pvars, loop>>

ANext ==
  \/ CreateJobAmount
  \/ GetUnsignedAmount
  \/ CreateCampaignAmount
  \/ TransferInstructionAmount

(* ====================================================================== *)
(* Part V: the loop of createBatches, statement by statement               *)
(* ====================================================================== *)
Max(a, b) == IF a > b THEN a ELSE b

\* parseInt(batchSize) of the request body: an integer, or NaN when the field
\* is absent or not a number
ParsedBatchSizes ==
  {[nan |-> FALSE, n |-> k] : k \in -MaxBatchInput..MaxBatchInput}
    \cup {[nan |-> TRUE, n |-> 0]}

\* parseInt(batchSize) || 20
StoredBatchSize(parsed) == IF parsed.nan \/ parsed.n = 0 THEN DEFAULT_BATCH_SIZE ELSE parsed.n

\* the index i is followed down to MinIndex: only a negative size brings it
\* there, and then i < 0 <= array.length whatever i is, so that the test of the
\* loop has the same outcome at MinIndex as at every index below it
MinIndex == -MaxLoopSteps

\* executeCampaign calls createBatches(recipients, campaign.batchSize) for a
\* campaign POST / has stored: const batches = []; let i = 0
BInit ==
  /\ campaign = NoCampaign
  /\ recipient = <<>>
  /\ exec = <<>>
  /\ unit = <<>>
  /\ tries = <<>>
  /\ submits = <<>>
  /\ job = [status |-> "none", error_message |-> Null]
  /\ tasks = <<>>
  /\ worker = [pc |-> "none", task |-> 0, retry_count |-> 0]
  /\ cancel = <<>>
  /\ pjob = [status |-> "none"]
  /\ ptasks = <<>>
  /\ client = <<>>
  /\ conv = NoConv
  /\ \E parsed \in ParsedBatchSizes, n \in 0..MaxListLen :
       loop = [pc |-> "for", size |-> StoredBatchSize(parsed), len |-> n,
               i |-> 0, pushed |-> 0]

\* i < array.length: batches.push(array.slice(i, i + size)); i += size
\* (pushed is counted up to MaxLoopSteps)
LoopPush ==
  /\ loop.pc = "for"
  /\ loop.i < loop.len
  /\ loop' = [loop EXCEPT !.i = Max(loop.i + loop.size, MinIndex),
                          !.pushed = Min(loop.pushed + 1, MaxLoopSteps)]
  /\ UNCHANGED <<engines, pvars, conv>>

\* i >= array.length: return batches
LoopExit ==
  /\ loop.pc = "for"
  /\ ~(loop.i < loop.len)
  /\ loop' = [loop EXCEPT !.pc = "returned"]
  /\ UNCHANGED <<engines, pvars, conv>>

BNext ==
  \/ LoopPush
  \/ LoopExit

vars == <<dvars, svars>>

Init == DInit
Next == DNext
Spec == Init /\ [][Next]_vars

SpecWorker == WInit /\ [][WNext]_vars

\* the event loop runs every continuation and every request handler that is ready
SpecWorkerFair == SpecWorker /\ WF_vars(WNext)

SpecWallet == PInit /\ [][PNext]_vars

SpecAmount == AInit /\ [][ANext]_vars

SpecUpload == UInit /\ [][UNext]_vars

\* the loop runs on: every statement that can be executed is executed
SpecBatching == BInit /\ [][BNext]_vars /\ WF_vars(BNext)

(* ---------------------------------------------------------------------- *)
(* Properties of the distributor                                           *)
(* ---------------------------------------------------------------------- *)
Quiet ==
  /\ \A e \in Executions : exec[e].pc \in {"none", "done"}
  /\ \A e \in Executions, r \in Recipients : unit[e][r].pc \in {"idle", "done"}

\* C1: executeCampaign on a campaign it did not find pending is a no-op: the
\* step it takes after reading the campaign changes no campaign or recipient
\* row and dispatches no transfer.
C1_ExecuteNonPendingIsNoOp ==
  [][\A e \in Executions :
       (exec[e].pc = "mark" /\ exec[e].seen # "pending" /\ exec'[e].pc # "mark")
         => UNCHANGED <<campaign, recipient, tries>>]_vars

TaskEdges ==
  {<<"pending", "processing">>, <<"processing", "sent">>, <<"sent", "confirmed">>,
   <<"sent", "failed">>, <<"processing", "retrying">>, <<"retrying", "pending">>,
   <<"processing", "failed">>}

\* C3: every change of a recipient's status follows an edge of the task state
\* machine pending -> processing -> {sent -> confirmed, sent -> failed},
\* processing -> retrying -> pending, processing -> failed.
C3_StatusFollowsEdges ==
  [][\A r \in Recipients :
       recipient'[r].status # recipient[r].status
         => <<recipient[r].status, recipient'[r].status>> \in TaskEdges]_vars

\* C4: in a run started by a single execute request, a recipient for which no
\* submission ever succeeded is attempted at most maxRetries times, and once
\* nothing is left to run for it it is failed with attempts = maxRetries.
C4_RetriesBounded ==
  \A r \in Recipients :
    (submits[r] = 0 /\ \A e \in Executions : e > 1 => exec[e].pc = "none") =>
      /\ tries[r] <= campaign.maxRetries
      /\ (tries[r] > 0 /\ \A e \in Executions : unit[e][r].pc \in {"idle", "done"})
           => (recipient[r].status = "failed" /\ recipient[r].attempts = campaign.maxRetries)

\* C5: the persisted attempts counter never decreases from one write to the
\* next and never exceeds maxRetries.
C5_AttemptsMonotoneBounded ==
  [][\A r \in Recipients :
       /\ recipient'[r].attempts >= recipient[r].attempts
       /\ recipient'[r].attempts <= campaign.maxRetries]_vars

\* C6: while updateCampaignStats is finalizing the campaign no confirmation
\* monitor of the campaign is outstanding and no recipient is in status sent.
C6_NoFinalizeWithOutstandingMonitor ==
  \A e \in Executions :
    exec[e].pc = "stats_write" =>
      /\ \A d \in Executions, r \in Recipients : unit[d][r].pc \notin {"monitor", "fee"}
      /\ \A r \in Recipients : recipient[r].status # "sent"

\* C7: when every relay call and every confirmation succeeded and all work has
\* ended, the campaign is completed with totalConfirmed = N and totalFailed = 0.
C7_AllSucceedAllCounted ==
  (/\ Quiet
   /\ \E e \in Executions : exec[e].pc = "done"
   /\ \A r \in Recipients :
        recipient[r].status = "confirmed" /\ recipient[r].lastError = Null /\ submits[r] = 1)
    => /\ campaign.status = "completed"
       /\ campaign.totalConfirmed = campaign.totalRecipients
       /\ campaign.totalFailed = 0

\* C9: a recipient for which the relay returned a signature is never submitted
\* to the relay again.
C9_NeverResubmitted == \A r \in Recipients : submits[r] <= 1

\* C10 as stated: confirmed + failed + pending + processing + retrying = total.
C10_FiveStatusesAddUp ==
  CountStatus("confirmed") + CountStatus("failed") + CountStatus("pending")
    + CountStatus("processing") + CountStatus("retrying") = campaign.totalRecipients

\* C10, amended: at every observation point of a campaign the numbers of its
\* recipients in status confirmed, failed, pending, processing, retrying and
\* sent add up to totalRecipients.
C10_SixStatusesAddUp ==
  CountStatus("confirmed") + CountStatus("failed") + CountStatus("pending")
    + CountStatus("processing") + CountStatus("retrying") + CountStatus("sent")
      = campaign.totalRecipients

C10_Witness ==
  /\ \E r \in Recipients : recipient[r].status = "sent"
  /\ \E r \in Recipients : recipient[r].status \in {"confirmed", "failed", "retrying"}

\* C11: a recipient in status confirmed has a transaction signature and a fee
\* paid, and a recipient in status failed has a lastError.
C11_TerminalFieldsSet ==
  \A r \in Recipients :
    /\ recipient[r].status = "confirmed"
         => (recipient[r].txSignature # NoSignature /\ recipient[r].feesPaid # NoFee)
    /\ recipient[r].status = "failed" => recipient[r].lastError # Null

C11_Witness ==
  /\ \E r \in Recipients : recipient[r].status = "confirmed"
  /\ \E r \in Recipients : recipient[r].status = "failed" /\ recipient[r].txSignature # NoSignature

\* the sendTokenToRecipient calls in progress: first attempts and timer retries
PipelinesInProgress ==
  {p \in Executions \X Recipients : unit[p[1]][p[2]].pc \in {"send", "retry"}}

\* C12: in a run started by a single execute request, never more than batchSize
\* sendTokenToRecipient calls (first attempts and retries alike) are in progress.
C12_BatchSizeRespected ==
  (\A e \in Executions : e > 1 => exec[e].pc = "none")
    => Cardinality(PipelinesInProgress) <= campaign.batchSize

\* C15: the campaign is completed only when no recipient can still make
\* progress: none is pending or retrying with attempts < maxRetries.
C15_CompletedOnlyWhenNothingLeft ==
  campaign.status = "completed" =>
    \A r \in Recipients :
      ~(/\ recipient[r].status \in {"pending", "retrying"}
        /\ recipient[r].attempts < campaign.maxRetries)

\* the invocations that have a pipeline attempt or a monitor running for r
Writers(r) == {e \in Executions : unit[e][r].pc \in {"send", "retry", "monitor", "fee"}}

\* C16: at no time do two units of work (pipeline attempts or confirmation
\* monitors) that write the same recipient row exist, whatever the number of
\* execute requests.
C16_SingleWriterPerRecipient ==
  \A r \in Recipients : Cardinality(Writers(r)) <= 1

\* C17: totalConfirmed + totalFailed <= totalRecipients in every state.
C17_CountersWithinTotal ==
  campaign.totalConfirmed + campaign.totalFailed <= campaign.totalRecipients

C17_Witness ==
  /\ campaign.status = "completed"
  /\ campaign.totalConfirmed >= 1
  /\ campaign.totalFailed >= 1
  /\ campaign.totalConfirmed + campaign.totalFailed = campaign.totalRecipients

C21_BackoffDoubles ==
  [][\A e \in Executions, r \in Recipients :
       (unit[e][r].pc = "retry" /\ unit'[e][r].pc = "backoff")
         => unit'[e][r].delay = 2 * unit[e][r].delay]_vars

\* every retry timer of a recipient is armed with the delay of the one before
BackoffConstant ==
  [][\A e \in Executions, r \in Recipients :
       (unit[e][r].pc = "retry" /\ unit'[e][r].pc = "backoff")
         => unit'[e][r].delay = unit[e][r].delay]_vars

\* C22: a monitor whose confirmation reported finality without error writes the
\* recipient confirmed with confirmedAt and feesPaid, and a monitor whose
\* confirmation reported an on-chain error or expired writes it failed with
\* that error as lastError.
C22_MonitorOutcome ==
  [][\A e \in Executions, r \in Recipients :
       /\ (unit[e][r].pc = "fee" /\ unit'[e][r].pc = "done")
            => /\ recipient'[r].status = "confirmed"
               /\ recipient'[r].confirmedAt
               /\ recipient'[r].feesPaid # NoFee
       /\ (unit[e][r].pc = "monitor" /\ unit'[e][r].pc = "done")
            => /\ recipient'[r].status = "failed"
               /\ recipient'[r].lastError \in MonitorErrors]_vars

\* a monitor whose confirmation reported an on-chain error or expired never
\* writes confirmed: it writes failed with a lastError
MonitorErrorNeverConfirmed ==
  [][\A e \in Executions, r \in Recipients :
       (unit[e][r].pc = "monitor" /\ unit'[e][r].pc = "done")
         => /\ recipient'[r].status = "failed"
            /\ recipient'[r].lastError \in MonitorErrors]_vars

\* C23: every write of status sent follows a submission that returned a
\* signature, and records that signature together with the stored attempts
\* counter incremented by one; a recipient with a signature has been submitted.
C23_SentWriteAtomic ==
  [][\A r \in Recipients :
       (recipient'[r].status = "sent" /\ recipient'[r] # recipient[r])
         => /\ submits'[r] >= 1
            /\ recipient'[r].txSignature # NoSignature
            /\ recipient'[r].attempts = recipient[r].attempts + 1]_vars

\* a recipient in status sent has a signature, and a recipient with a
\* signature has been submitted to the relay at least once
SignatureImpliesSubmitted ==
  \A r \in Recipients :
    /\ recipient[r].status = "sent" => recipient[r].txSignature # NoSignature
    /\ recipient[r].txSignature # NoSignature => submits[r] >= 1

\* C24: while a sendTokenToRecipient call is in progress for a recipient, its
\* row is not in status pending or retrying.
C24_ProcessingBeforeWork ==
  \A e \in Executions, r \in Recipients :
    InPipeline(e, r) => recipient[r].status \notin {"pending", "retrying"}

RECURSIVE Flatten(_)
Flatten(batches) ==
  IF batches = <<>> THEN <<>> ELSE batches[1] \o Flatten(SubSeq(batches, 2, Len(batches)))

\* C25: the batches executeCampaign makes of the pending and retrying
\* recipients it read have between 1 and batchSize recipients each, give the
\* list it read when concatenated in order, and are pairwise disjoint.
C25_BatchesPartition ==
  [][\A e \in Executions :
       (exec[e].pc = "none" /\ exec'[e].pc = "mark")
         => LET input == SeqOfSet({r \in Recipients :
                                     recipient[r].status \in {"pending", "retrying"}})
                b == exec'[e].batches
            IN /\ Flatten(b) = input
               /\ \A k \in 1..Len(b) : Len(b[k]) >= 1 /\ Len(b[k]) <= campaign.batchSize
               /\ \A j \in 1..Len(b) : \A k \in 1..Len(b) :
                    j # k => SeqRange(b[j]) \cap SeqRange(b[k]) = {}]_vars

C25_Witness ==
  \E e \in Executions :
    /\ Len(exec[e].batches) = 2
    /\ Flatten(exec[e].batches) = <<1, 2>>

\* C26: within one executeCampaign call a recipient of a later batch is
\* dispatched only when the first pipeline attempt of every recipient of every
\* earlier batch has ended (row written sent, or handleFailure returned).
C26_BatchesInOrder ==
  [][\A e \in Executions, r \in Recipients :
       (unit[e][r].pc = "idle" /\ unit'[e][r].pc = "send")
         => \A k \in 1..Len(exec[e].batches) : \A q \in SeqRange(exec[e].batches[k]) :
              (\E j \in (k + 1)..Len(exec[e].batches) : r \in SeqRange(exec[e].batches[j]))
                => unit[e][q].pc \notin {"idle", "send"}]_vars

\* the second batch is dispatched while the monitor of the first is outstanding
C26_Witness ==
  \E e \in Executions :
    /\ Len(exec[e].batches) = 2
    /\ exec[e].k = 2
    /\ unit[e][exec[e].batches[1][1]].pc = "monitor"
    /\ unit[e][exec[e].batches[2][1]].pc = "send"

\* the recipients in status confirmed
Confirmed == {r \in Recipients : recipient[r].status = "confirmed"}

\* C27: the groupBy of updateCampaignStats yields the number of confirmed
\* recipients, the number of failed recipients and the sum of feesPaid over the
\* confirmed recipients, and its update writes these and status completed.
C27_StatsAsCounted ==
  [][\A e \in Executions :
       /\ (Drained(e) /\ exec'[e].pc = "stats_write")
            => exec'[e].stats = [confirmed |-> CountStatus("confirmed"),
                                 failed |-> CountStatus("failed"),
                                 fees |-> SumFees(Confirmed)]
       /\ (exec[e].pc = "stats_write" /\ exec'[e].pc = "done")
            => /\ campaign'.totalConfirmed = exec[e].stats.confirmed
               /\ campaign'.totalFailed = exec[e].stats.failed
               /\ campaign'.totalSOLSpent = exec[e].stats.fees
               /\ campaign'.status = "completed"]_vars

\* the executeCampaign calls that are inside updateCampaignStats
Finalizing == {e \in Executions : exec[e].pc = "stats_write"}

\* C28: updateCampaignStats never runs twice at the same time for the campaign,
\* and the counters of the campaign do not change while an executeCampaign
\* call is processing batches.
C28_SingleFinalization ==
  [][/\ Cardinality(Finalizing) <= 1
     /\ (\E e \in Executions : exec[e].pc = "await" /\ exec'[e].pc = "await")
          => UNCHANGED <<campaign.totalConfirmed, campaign.totalFailed,
                         campaign.totalSOLSpent>>]_vars

\* C29: no recipient is handed to handleFailure for the failure of the write of
\* status sent: none is written retrying or failed with the repository error.
C29_RepositoryFailureNotRetried ==
  \A r \in Recipients :
    ~(/\ recipient[r].lastError = RepositoryError
      /\ recipient[r].status \in {"retrying", "failed"})

\* C33: in a run of a single execute request, whenever no pipeline attempt is
\* in progress for a recipient, its stored attempts counter equals the number
\* of sendTokenToRecipient calls made for it.
C33_AttemptsCountAttempts ==
  (\A e \in Executions : e > 1 => exec[e].pc = "none")
    => \A r \in Recipients :
         (\A e \in Executions : ~InPipeline(e, r)) => recipient[r].attempts = tries[r]

\* C34: a monitor whose confirmation reported finality without error never
\* writes the recipient failed.
C34_ConfirmedNeverFailed ==
  [][\A e \in Executions, r \in Recipients :
       (unit[e][r].pc = "fee" /\ unit'[e][r].pc # "fee")
         => recipient'[r].status # "failed"]_vars

(* ---------------------------------------------------------------------- *)
(* Properties of processJob and cancel-job                                 *)
(* ---------------------------------------------------------------------- *)
TerminalJobStatus == {"completed", "failed", "cancelled"}

\* C2: a job's status only moves forward along pending -> running ->
\* {completed, failed, cancelled}: a terminal status never changes again and
\* a running job never returns to pending.
C2_JobStatusMonotone ==
  [][/\ job.status \in TerminalJobStatus => job'.status = job.status
     /\ job.status = "running" => job'.status # "pending"]_vars

\* C8: once the job the worker loop is processing has been set to cancelled,
\* the worker picks no further task and the job status stays cancelled.
C8_CancelHonoured ==
  [][(job.status = "cancelled" /\ worker.pc \notin {"get", "mark", "setup", "fatal"})
       => /\ job'.status = "cancelled"
          /\ ~(worker.pc = "select" /\ worker'.pc = "claim")]_vars

\* a task the worker or cancel-job has written at least once
Touched(t) == tasks[t] # NewTask

\* C13: once the worker has begun to process tasks, a failure of one task does
\* not abort the job: when the worker has ended without a cancellation request,
\* no task is left to select and the job is not failed.
C13_TaskFailureDoesNotAbort ==
  (/\ worker.pc = "done"
   /\ \A c \in Cancels : cancel[c] = "none"
   /\ \E t \in Tasks : Touched(t))
    => (Selectable = {} /\ job.status # "failed")

\* C14: without a cancellation request, whenever the job is in status failed
\* no task of it has ever left status pending.
C14_FailedOnlyBeforeTasks ==
  (job.status = "failed" /\ \A c \in Cancels : cancel[c] = "none")
    => \A t \in Tasks : ~Touched(t)

\* while the worker works on a task, the task is in status processing
WorkerTaskProcessing ==
  worker.pc = "work" => tasks[worker.task].status = "processing"

\* C30: the worker selects a task only while it is pending with retry_count <
\* MAX_RETRIES; retry_count changes only by a failed attempt, which adds one;
\* the attempt that brings it to MAX_RETRIES writes the task failed; retry_count
\* never exceeds MAX_RETRIES and a task failed at MAX_RETRIES is not selected.
C30_AttemptsBounded ==
  [][/\ (worker.pc = "select" /\ worker'.pc = "claim")
          => /\ tasks[worker'.task].status = "pending"
             /\ tasks[worker'.task].retry_count < MAX_RETRIES
             /\ worker'.retry_count = tasks[worker'.task].retry_count
     /\ \A t \in Tasks :
          /\ tasks'[t].retry_count <= MAX_RETRIES
          /\ tasks'[t].retry_count # tasks[t].retry_count
               => /\ worker.pc = "work" /\ worker.task = t
                  /\ tasks'[t].retry_count = tasks[t].retry_count + 1
                  /\ tasks'[t].status = IF tasks'[t].retry_count = MAX_RETRIES
                                         THEN "failed" ELSE "pending"
          /\ (tasks[t].status = "failed" /\ tasks[t].retry_count = MAX_RETRIES)
               => tasks'[t] = tasks[t]]_vars

C30_Witness ==
  \E t \in Tasks :
    /\ tasks[t].status = "failed"
    /\ tasks[t].retry_count = MAX_RETRIES
    /\ tasks[t].error_message = TaskError

\* C31: a step of cancel-job leaves the worker alone and changes no task that
\* is not pending; its last statement writes every pending task failed with
\* the cancellation message.
C31_CancelTouchesPendingOnly ==
  [][\A c \in Cancels :
       cancel'[c] # cancel[c]
         => /\ worker' = worker
            /\ \A t \in Tasks :
                 tasks'[t] = IF cancel[c] = "tasks" /\ tasks[t].status = "pending"
                             THEN [tasks[t] EXCEPT !.status = "failed",
                                                   !.error_message = CancelMessage]
                             ELSE tasks[t]]_vars

\* the job was cancelled while a task is in flight: it is still processing
C31_Witness ==
  /\ \E c \in Cancels : cancel[c] = "done"
  /\ worker.pc = "work"
  /\ tasks[worker.task].status = "processing"
  /\ \E t \in Tasks : tasks[t].error_message = CancelMessage

\* C32: when the job is cancelled, the worker has stopped and no cancel
\* request is running, every task is in status success or failed.
C32_NoTaskLeftAfterCancel ==
  (/\ job.status = "cancelled"
   /\ worker.pc = "done"
   /\ \A c \in Cancels : cancel[c] \notin {"job", "tasks"})
    => \A t \in Tasks : tasks[t].status \in {"success", "failed"}

\* C38: under fairness the worker loop ends and the job is then in a terminal
\* status.
C38_WorkerTerminates ==
  <>(worker.pc = "done" /\ job.status \in TerminalJobStatus)

C38_Witness ==
  /\ worker.pc = "done"
  /\ job.status = "completed"
  /\ \E t \in Tasks : tasks[t].status = "failed" /\ tasks[t].retry_count = MAX_RETRIES
  /\ \E t \in Tasks : tasks[t].status = "success"

\* C40: a cancel-job request that reads a job in a status other than running
\* and pending, or finds no job, ends there: it is answered with an error and
\* no step of it changes the job row or a task.
C40_CancelRefused ==
  [][\A c \in Cancels :
       /\ (cancel[c] = "none" /\ cancel'[c] # "none")
            => /\ job' = job /\ tasks' = tasks
               /\ job.status \notin {"running", "pending"}
                    => cancel'[c] \in {"rejected", "notfound"}
       /\ cancel[c] \in {"rejected", "notfound"} => cancel'[c] = cancel[c]]_vars

C40_Witness ==
  /\ \E c \in Cancels : cancel[c] = "rejected"
  /\ job.status \in {"completed", "failed"}

(* ---------------------------------------------------------------------- *)
(* Properties of the wallet flow                                           *)
(* ---------------------------------------------------------------------- *)
\* C19: a task that ended failed in submit-signed-transactions is offered again:
\* every response of get-unsigned-transactions that is not full contains every
\* task that is in status failed.
C19_FailedOfferedAgain ==
  [][\A c \in Clients :
       (client[c].pc = "idle" /\ client'[c].pc = "offered"
          /\ Cardinality(client'[c].offered) < UNSIGNED_LIMIT)
         => \A t \in PTasks : ptasks[t].status = "failed" => t \in client'[c].offered]_vars

\* C35: no step of submit-signed-transactions changes a task that is in status
\* success or failed.
C35_FinishedTasksUntouched ==
  [][\A t \in PTasks :
       ptasks[t].status \in {"success", "failed"} => ptasks'[t] = ptasks[t]]_vars

\* C36: in the wallet flow, while the job is completed no task is pending or
\* processing.
C36_CompletedMeansNoOpenTask ==
  pjob.status = "completed"
    => \A t \in PTasks : ptasks[t].status \notin {"pending", "processing"}

\* in processJob's flow, while the job is completed no task is pending or processing
WorkerCompletedMeansNoOpenTask ==
  job.status = "completed"
    => \A t \in Tasks : tasks[t].status \notin {"pending", "processing"}

\* C37: when the run of handleSubmit has ended (its submit-signed-transactions
\* request was answered), no task of the job is pending and the job is completed.
C37_OneRunCompletesJob ==
  (pjob.status # "pending" /\ client[1].pc = "idle")
    => (PendingTasks = {} /\ pjob.status = "completed")

\* with at most UNSIGNED_LIMIT tasks in the CSV the run completes the job
UploadCompletesSmallJob ==
  (pjob.status # "pending" /\ client[1].pc = "idle" /\ Cardinality(PTasks) <= UNSIGNED_LIMIT)
    => (PendingTasks = {} /\ pjob.status = "completed")

\* no response of get-unsigned-transactions contains a task in status failed
FailedNeverOffered ==
  [][\A c \in Clients :
       (client[c].pc = "idle" /\ client'[c].pc = "offered")
         => \A t \in client'[c].offered : ptasks[t].status # "failed"]_vars

(* ---------------------------------------------------------------------- *)
(* Properties of the amount conversion                                     *)
(* ---------------------------------------------------------------------- *)
\* the digits and the number of fraction digits of the CSV amount
AmountDigits == BigIntOf(SplitWhole(conv.amount) \o SplitFraction(conv.amount))
AmountScale == Len(SplitFraction(conv.amount))

\* amount x 10^decimals is an integer
Scalable == (AmountDigits * Pow10(conv.decimals)) % Pow10(AmountScale) = 0

ExactAmount == (AmountDigits * Pow10(conv.decimals)) \div Pow10(AmountScale)

\* C18: whenever amount x 10^decimals is an integer, the amount used in the
\* transfer is that integer, in both engines.
C18_ConversionExact ==
  (conv.stage = "used" /\ Scalable) => conv.used = ExactAmount

\* toSmallestUnit followed by toString and BigInt is exact
ToSmallestUnitExact ==
  (conv.engine = "server" /\ conv.stage = "used" /\ Scalable) => conv.used = ExactAmount

(* ---------------------------------------------------------------------- *)
(* Properties of the loop of createBatches                                 *)
(* ---------------------------------------------------------------------- *)
\* C39: for every batch size POST / can store and every recipient list, the
\* loop of createBatches ends.
C39_BatchingTerminates == <>(loop.pc = "returned")

\* for a batch size >= 1 the loop ends after at most array.length pushes
PositiveSizeTerminates ==
  loop.size >= 1 => (loop.pushed <= loop.len /\ loop.i <= loop.len + loop.size)

====
